---- MODULE Spec2Model ----
(***************************************************************************)
(* Model of api_li3ds/apis/platform.py: the platform REST resources and    *)
(* the configuration preview (transformation graph assembly + rendering).  *)
(* The relational store is modelled as five tables (sets of rows); each    *)
(* SQL statement of the source is an operator over those tables.           *)
(***************************************************************************)
EXTENDS Integers, Sequences, FiniteSets, TLC

VARIABLES
    platform,          \* table li3ds.platform
    platform_config,   \* table li3ds.platform_config
    transfo_tree,      \* table li3ds.transfo_tree
    transfo,           \* table li3ds.transfo
    referential,       \* table li3ds.referential
    req,               \* the preview request being served (locals of get)
    last,              \* node/edge sets of the previous completed assembly
    http               \* last request/response of the platform resources

store == <<platform, platform_config, transfo_tree, transfo, referential>>
vars == <<platform, platform_config, transfo_tree, transfo, referential,
          req, last, http>>

----------------------------------------------------------------------------
(* Bounds of the model *)

MaxTransfo == 2
MaxConfig == 2
MaxPlatform == 3

TransfoIds == 10 .. (9 + MaxTransfo)
RefIds == 100 .. (100 + MaxTransfo)
TreeIds == {1, 2}
ConfigIds == 1 .. MaxConfig
PlatformIds == 1 .. MaxPlatform
Names == {"a", "b"}

Ids(table) == {row.id : row \in table}

----------------------------------------------------------------------------
(* Row order: SQL leaves the order of a result set unspecified; a result   *)
(* is delivered as a list in ascending or descending key order.            *)

Scans == {"asc", "desc"}

Rank(row) ==
    IF "sc" \in DOMAIN row
    THEN 2 * row.id + (IF row.sc THEN 1 ELSE 0)
    ELSE row.id

RECURSIVE Ascending(_)
Ascending(rows) ==
    IF rows = {} THEN <<>>
    ELSE LET first == CHOOSE r \in rows : \A o \in rows : Rank(r) <= Rank(o)
         IN  <<first>> \o Ascending(rows \ {first})

Reverse(s) == [i \in 1 .. Len(s) |-> s[Len(s) + 1 - i]]

Fetch(rows, scan) ==
    IF scan = "asc" THEN Ascending(rows) ELSE Reverse(Ascending(rows))

Range(s) == {s[i] : i \in 1 .. Len(s)}

----------------------------------------------------------------------------
(* The preview: PlatformConfigPreview.get *)

\* a mutant of Tmp: the condition "where pf.id = %s" is missing
TmpAnyConfig(id) ==
    {[tree |-> tt.id, tid |-> tid, sc |-> tt.sensor_connections] :
        <<tt, tid>> \in
            {p \in transfo_tree \X TransfoIds : p[2] \in p[1].transfos}}

\* with tmp as (select unnest(tt.transfos) as tid, sensor_connections as sc
\*   from platform_config pf join transfo_tree tt on tt.id = ANY(pf.transfo_trees)
\*   where pf.id = %s)
Tmp(id) ==
    {[tree |-> tt.id, tid |-> tid, sc |-> tt.sensor_connections] :
        <<tt, tid>> \in
            {p \in transfo_tree \X TransfoIds :
                /\ p[2] \in p[1].transfos
                /\ \E pf \in platform_config :
                      pf.id = id /\ p[1].id \in pf.transfo_trees}}

\* select distinct t.id, t.source, t.target, transfo_type, p.sc
\*   from tmp p join transfo t on t.id = p.tid
EdgeRows(id) ==
    {[id |-> t.id, source |-> t.source, target |-> t.target,
      transfo_type |-> t.transfo_type, sc |-> p.sc] :
        <<p, t>> \in {q \in Tmp(id) \X transfo : q[2].id = q[1].tid}}

\* a mutant of Urefs: the two add() calls stand after the loop, not in it
UrefsAfterLoop(edges) ==
    IF edges = <<>> THEN {}
    ELSE {edges[Len(edges)].source, edges[Len(edges)].target}

\* urefs = set(); for edge in edges: urefs.add(source); urefs.add(target)
Urefs(edges) ==
    {edges[i].source : i \in 1 .. Len(edges)} \cup
    {edges[i].target : i \in 1 .. Len(edges)}

\* a mutant of NodeRows: the condition "where ARRAY[id] <@ %s" is missing
NodeRowsAll(urefs) ==
    {[id |-> r.id, name |-> r.name, root |-> r.root] : r \in referential}

\* select distinct id, name, root from referential where ARRAY[id] <@ %s
NodeRows(urefs) ==
    {[id |-> r.id, name |-> r.name, root |-> r.root] :
        r \in {x \in referential : x.id \in urefs}}

\* str(): the decimal text of an identifier
Str(n) == ToString(n)

\* '{}\n({})'.format(node.name, node.id)
NodeLabel(node) == node.name \o "\n(" \o Str(node.id) \o ")"

\* a mutant of NodeStmt: the test of node.root is inverted
NodeStmtInverted(node) ==
    [stmt |-> "node", name |-> Str(node.id), label |-> NodeLabel(node),
     attrs |-> IF node.root THEN {} ELSE {<<"color", "red">>}]

\* dot.node(str(node.id), label[, color='red'])
NodeStmt(node) ==
    [stmt |-> "node", name |-> Str(node.id), label |-> NodeLabel(node),
     attrs |-> IF node.root THEN {<<"color", "red">>} ELSE {}]

\* dot.edge(str(edge.source), str(edge.target), label='{}'.format(edge.id)[, color='blue'])
EdgeStmt(edge) ==
    [stmt |-> "edge", tail |-> Str(edge.source), head |-> Str(edge.target),
     label |-> Str(edge.id),
     attrs |-> IF edge.sc THEN {<<"color", "blue">>} ELSE {}]

\* dot = Digraph(comment='Transformations')
Digraph == [comment |-> "Transformations", body |-> <<>>,
            graph_attr |-> {}, engine |-> "dot"]

NoDot == [comment |-> "", body |-> <<>>, graph_attr |-> {}, engine |-> ""]

Idle == [pc |-> "idle", id |-> 0, edges |-> <<>>, urefs |-> {}, nodes |-> <<>>,
         dot |-> NoDot, pipes |-> 0, backend |-> "unused", response |-> "none"]

NoAssembly == [id |-> 0, edges |-> <<>>, nodes |-> {}]

\* a mutant of Locals: the locals of the previous call survive into the next
StaleLocals == req

\* line 139: every call of get starts with fresh locals
Locals == Idle

\* lines 146-162: a new call (fresh locals), the edge query, the urefs loop
PreviewQueryEdges(id, scan) ==
    /\ req.pc \in {"idle", "done"}
    /\ LET edges == Fetch(EdgeRows(id), scan)
       IN  req' = [Locals EXCEPT !.pc = "edges", !.id = id, !.edges = edges,
                                 !.urefs = Urefs(edges)]
    /\ last' = IF req.pc = "done"
               THEN [id |-> req.id, edges |-> req.edges,
                     nodes |-> Range(req.nodes)]
               ELSE last
    /\ UNCHANGED <<store, http>>

\* lines 164-167: the node query
PreviewQueryNodes(scan) ==
    /\ req.pc = "edges"
    /\ req' = [req EXCEPT !.pc = "nodes",
                          !.nodes = Fetch(NodeRows(req.urefs), scan)]
    /\ UNCHANGED <<store, last, http>>

\* lines 169-192: the graph description
BuildBody(nodes, edges) ==
    [i \in 1 .. Len(nodes) |-> NodeStmt(nodes[i])] \o
    [i \in 1 .. Len(edges) |-> EdgeStmt(edges[i])]

PreviewBuildDot ==
    /\ req.pc = "nodes"
    /\ req' = [req EXCEPT !.pc = "built",
                          !.dot = [Digraph EXCEPT
                                     !.body = BuildBody(req.nodes, req.edges),
                                     !.graph_attr = {<<"overlap", "scalexy">>},
                                     !.engine = "dot"]]
    /\ UNCHANGED <<store, last, http>>

\* a mutant of PipeOutcome: a failed backend is answered with a blank image
PipeOutcomeBlank(ok) == "image/png"

\* lines 193-198: data = dot.pipe("png"); the backend either produces the
\* image or raises, and an exception leaves the handler unhandled
PipeOutcome(ok) == IF ok THEN "image/png" ELSE "error"

PreviewPipe(ok) ==
    /\ req.pc = "built"
    /\ req' = [req EXCEPT !.pc = "done", !.pipes = req.pipes + 1,
                          !.backend = IF ok THEN "ok" ELSE "failed",
                          !.response = PipeOutcome(ok)]
    /\ UNCHANGED <<store, last, http>>

Preview ==
    \/ \E id \in ConfigIds, scan \in Scans : PreviewQueryEdges(id, scan)
    \/ \E scan \in Scans : PreviewQueryNodes(scan)
    \/ PreviewBuildDot
    \/ \E ok \in BOOLEAN : PreviewPipe(ok)

----------------------------------------------------------------------------
(* Writes of other requests to the transformation tables (the transfo and  *)
(* referential resources); the store keeps transfo.source and              *)
(* transfo.target referencing existing referentials.                       *)

DeleteTransfo(t) ==
    /\ t \in Ids(transfo)
    /\ transfo' = {row \in transfo : row.id # t}
    /\ UNCHANGED <<platform, platform_config, transfo_tree, referential,
                   req, last, http>>

DeleteReferential(r) ==
    /\ r \in Ids(referential)
    /\ \A t \in transfo : t.source # r /\ t.target # r
    /\ referential' = {row \in referential : row.id # r}
    /\ UNCHANGED <<platform, platform_config, transfo_tree, transfo,
                   req, last, http>>

Writes ==
    \/ \E t \in TransfoIds : DeleteTransfo(t)
    \/ \E r \in RefIds : DeleteReferential(r)

----------------------------------------------------------------------------
(* The platform resources: Platforms, OnePlatform, PlatformConfigs *)

Response(op, id, status, message, body) ==
    [op |-> op, id |-> id, status |-> status, message |-> message,
     body |-> body]

NoHttp == Response("none", 0, 0, "", {})

\* select * from li3ds.platform
PlatformsGet ==
    /\ http' = Response("GET platforms", 0, 200, "", platform)
    /\ UNCHANGED <<store, req, last>>

\* insert into li3ds.platform (...) values (...) returning *  ->  row, 201
\* (the id is the column's default: some identifier not in use)
PlatformsPost(name) ==
    \E id \in PlatformIds \ Ids(platform) :
        LET row == [id |-> id, name |-> name]
        IN  /\ platform' = platform \cup {row}
            /\ http' = Response("POST platform", id, 201, "", {row})
            /\ UNCHANGED <<platform_config, transfo_tree, transfo,
                           referential, req, last>>

\* select * from li3ds.platform where id=%s; if not res: abort(410)
GetStatus(res) == IF res = {} THEN 410 ELSE 200

NotFound(status) == IF status = 410 THEN "Platform not found" ELSE ""

OnePlatformGet(id) ==
    LET res == {row \in platform : row.id = id}
        status == GetStatus(res)
    IN  /\ http' = Response("GET platform", id, status, NotFound(status), res)
        /\ UNCHANGED <<store, req, last>>

\* a mutant of DeleteStatus: the row count is not looked at
DeleteStatusAlways204(rowcount) == 204

\* res = rowcount(delete ...); if not res: abort(410); return '', 204
DeleteStatus(rowcount) == IF rowcount = 0 THEN 410 ELSE 204

OnePlatformDelete(id) ==
    LET deleted == {row \in platform : row.id = id}
        status == DeleteStatus(Cardinality(deleted))
    IN  /\ platform' = platform \ deleted
        /\ http' = Response("DELETE platform", id, status, NotFound(status), {})
        /\ UNCHANGED <<platform_config, transfo_tree, transfo, referential,
                       req, last>>

\* select * from li3ds.platform_config where platform = %s
PlatformConfigsGet(id) ==
    /\ http' = Response("GET configs", id, 200, "",
                        {row \in platform_config : row.platform = id})
    /\ UNCHANGED <<store, req, last>>

\* select * from li3ds.platform_config where id = %s
OnePlatformConfigGet(id) ==
    /\ http' = Response("GET config", id, 200, "",
                        {row \in platform_config : row.id = id})
    /\ UNCHANGED <<store, req, last>>

\* line 118: the text standing for the platform column in the insert
\* statement; the "{}" of the query string is sent as written (the string
\* is not formatted with id, and id is not among the parameters)
ConfigInsertPlatformSql(id) == "{}"

\* the integers a piece of SQL text denotes (none if it is no integer literal)
SqlIntegers(text) == {n \in PlatformIds : Str(n) = text}

\* insert into li3ds.platform_config (name, owner, platform, transfo_trees)
\*   values (%(name)s, %(owner)s, {}, %(transfo_trees)s) returning *  ->  row, 201
\* a statement the store cannot parse raises, and the request fails
PlatformConfigsPost(id, payload) ==
    LET values == SqlIntegers(ConfigInsertPlatformSql(id))
    IN  /\ \E cid \in ConfigIds \ Ids(platform_config) :
              IF values = {}
              THEN /\ platform_config' = platform_config
                   /\ http' = Response("POST config", id, 500, "", {})
              ELSE LET row == [id |-> cid, name |-> payload.name,
                               owner |-> payload.owner,
                               platform |-> CHOOSE n \in values : TRUE,
                               transfo_trees |-> payload.transfo_trees]
                   IN  /\ platform_config' = platform_config \cup {row}
                       /\ http' = Response("POST config", id, 201, "", {row})
        /\ UNCHANGED <<platform, transfo_tree, transfo, referential, req, last>>

ConfigPayloads ==
    [name : Names, owner : {"a"}, transfo_trees : SUBSET TreeIds]

PlatformApi ==
    \/ PlatformsGet
    \/ \E id \in ConfigIds : OnePlatformConfigGet(id)
    \/ \E name \in Names : PlatformsPost(name)
    \/ \E id \in PlatformIds : OnePlatformGet(id)
    \/ \E id \in PlatformIds : OnePlatformDelete(id)
    \/ \E id \in PlatformIds : PlatformConfigsGet(id)
    \/ \E id \in PlatformIds, payload \in ConfigPayloads :
          PlatformConfigsPost(id, payload)

----------------------------------------------------------------------------
(* Store contents *)

\* transformation t maps referential t+90 to t+91 (a chain, as 10: 100 -> 101)
ChainTransfo(t) == [id |-> t, source |-> t + 90, target |-> t + 91,
                    transfo_type |-> 1]

RefName(r) == IF r % 2 = 0 THEN "a" ELSE "b"

Referentials(roots) ==
    {[id |-> r, name |-> RefName(r), root |-> (r \in roots)] : r \in RefIds}

Tree(k, transfos, sc) ==
    [id |-> k, transfos |-> transfos, sensor_connections |-> sc]

Config(c, trees) ==
    [id |-> c, name |-> "a", owner |-> "a", platform |-> 1,
     transfo_trees |-> trees]

\* every store: the chain of transformations, at most one root referential,
\* two trees of any content, at most one configuration
InitStore ==
    /\ platform = {[id |-> 1, name |-> "a"]}
    /\ transfo = {ChainTransfo(t) : t \in TransfoIds}
    /\ \E roots \in {{}} \cup {{r} : r \in RefIds} :
          referential = Referentials(roots)
    /\ \E f \in [TreeIds -> (SUBSET TransfoIds) \X BOOLEAN] :
          transfo_tree = {Tree(k, f[k][1], f[k][2]) : k \in TreeIds}
    /\ \E cfgs \in {{}} \cup
                   {{Config(c, trees)} :
                        <<c, trees>> \in ConfigIds \X SUBSET TreeIds} :
          platform_config = cfgs

Init ==
    /\ InitStore
    /\ req = Idle
    /\ last = NoAssembly
    /\ http = NoHttp

Next == Preview

Spec == Init /\ [][Next]_vars

\* one store: configuration 1 with two overlapping trees over the chain, the
\* second a sensor-connection tree; referential 100 is the root
First == CHOOSE t \in TransfoIds : \A o \in TransfoIds : t <= o
Last == CHOOSE t \in TransfoIds : \A o \in TransfoIds : t >= o

InitRace ==
    /\ platform = {[id |-> 1, name |-> "a"]}
    /\ transfo = {ChainTransfo(t) : t \in TransfoIds}
    /\ referential = Referentials({100})
    /\ transfo_tree = {Tree(1, TransfoIds \ {Last}, FALSE),
                       Tree(2, TransfoIds \ {First}, TRUE)}
    /\ platform_config = {Config(1, TreeIds)}
    /\ req = Idle
    /\ last = NoAssembly
    /\ http = NoHttp

NextRace == Preview \/ Writes

SpecRace == InitRace /\ [][NextRace]_vars

InitPlatform ==
    /\ platform \in {{}, {[id |-> 1, name |-> "a"]}}
    /\ transfo = {ChainTransfo(t) : t \in TransfoIds}
    /\ referential = Referentials({100})
    /\ transfo_tree = {Tree(1, TransfoIds \ {Last}, FALSE),
                       Tree(2, TransfoIds \ {First}, TRUE)}
    /\ platform_config = {}
    /\ req = Idle
    /\ last = NoAssembly
    /\ http = NoHttp

NextPlatform == PlatformApi

SpecPlatform == InitPlatform /\ [][NextPlatform]_vars

----------------------------------------------------------------------------
(* Properties *)

Assembled == req.pc \in {"nodes", "built", "done"}

NodeIds == {req.nodes[i].id : i \in 1 .. Len(req.nodes)}

EndpointIds ==
    {req.edges[i].source : i \in 1 .. Len(req.edges)} \cup
    {req.edges[i].target : i \in 1 .. Len(req.edges)}

\* C1: no two edges of the assembled edge set have the same transformation
\* id, whatever the sensor-connection flags of the trees that share it.
C1_EachTransfoOnce ==
    \A i, j \in 1 .. Len(req.edges) :
        req.edges[i].id = req.edges[j].id => i = j

EmptyCase ==
    LET cfgs == {pf \in platform_config : pf.id = req.id}
        trees == {tt \in transfo_tree :
                     \E pf \in cfgs : tt.id \in pf.transfo_trees}
    IN  \/ cfgs = {}
        \/ trees = {}
        \/ \A tt \in trees : tt.transfos = {}

\* C3: a preview of a missing configuration, of one without trees or of trees
\* without transformations has an empty edge set and an empty node set, goes
\* on to render the empty graph and answers with the image whenever the
\* backend produced one; the three cases end alike.
C3_EmptyGraph ==
    (req.pc # "idle" /\ EmptyCase) =>
        /\ req.edges = <<>>
        /\ req.nodes = <<>>
        /\ req.dot.body = <<>>
        /\ req.pc = "done" =>
              /\ req.pipes = 1
              /\ req.backend = "ok" => req.response = "image/png"

\* a preview of a configuration id the store does not hold ended with an image
C3_Witness ==
    /\ req.pc = "done"
    /\ req.id \notin Ids(platform_config)
    /\ req.response = "image/png"

\* C4: in the graph description, the statements are one node statement per
\* assembled node, named by its id, labelled "<name>\n(<id>)", red exactly
\* when root, followed by one edge statement per assembled edge, from source
\* to target, labelled with the transformation id, blue exactly when
\* sensor_connection; other nodes and edges carry no color attribute.
C4_VisualPolicy ==
    req.pc \in {"built", "done"} =>
        LET body == req.dot.body
            n == Len(req.nodes)
        IN  /\ Len(body) = n + Len(req.edges)
            /\ \A i \in 1 .. n :
                  LET node == req.nodes[i]
                  IN  /\ body[i].stmt = "node"
                      /\ body[i].name = ToString(node.id)
                      /\ body[i].label =
                            node.name \o "\n(" \o ToString(node.id) \o ")"
                      /\ body[i].attrs =
                            IF node.root THEN {<<"color", "red">>} ELSE {}
            /\ \A j \in 1 .. Len(req.edges) :
                  LET edge == req.edges[j]
                  IN  /\ body[n + j].stmt = "edge"
                      /\ body[n + j].tail = ToString(edge.source)
                      /\ body[n + j].head = ToString(edge.target)
                      /\ body[n + j].label = ToString(edge.id)
                      /\ body[n + j].attrs =
                            IF edge.sc THEN {<<"color", "blue">>} ELSE {}

\* the graph is built with a root node that is a source and never a target,
\* beside a non-root node, a sensor-connection edge and a plain edge
C4_Witness ==
    /\ req.pc = "built"
    /\ \E i \in 1 .. Len(req.nodes) :
          /\ req.nodes[i].root
          /\ \E j \in 1 .. Len(req.edges) :
                req.edges[j].source = req.nodes[i].id
          /\ \A j \in 1 .. Len(req.edges) :
                req.edges[j].target # req.nodes[i].id
    /\ \E i \in 1 .. Len(req.nodes) : ~req.nodes[i].root
    /\ \E j \in 1 .. Len(req.edges) : req.edges[j].sc
    /\ \E j \in 1 .. Len(req.edges) : ~req.edges[j].sc

\* C5: whatever other requests write between the edge query and the node
\* query, both endpoints of every assembled edge are in the node set.
C5_EndpointsPresent ==
    Assembled => EndpointIds \subseteq NodeIds

\* C6: an assembly for the configuration id of the previous assembly, the
\* store unchanged, has the same edge set and the same node set, whatever
\* the orders in which the rows came.
C6_Idempotent ==
    (Assembled /\ last.id = req.id) =>
        /\ Range(req.edges) = Range(last.edges)
        /\ NodeIds = {n.id : n \in last.nodes}
        /\ Range(req.nodes) = last.nodes

\* the second assembly for an id got its (two or more) edge rows in another
\* order than the first
C6_Witness ==
    /\ Assembled
    /\ last.id = req.id
    /\ Len(req.edges) >= 2
    /\ req.edges # last.edges

\* C7: a step of a preview request leaves the five tables as they are, and
\* a request starts from nothing of the request before it: no nodes, no
\* graph description, no rendering, no response.
C7_ReadOnly ==
    [][/\ req' # req => store' = store
       /\ (req'.pc = "edges" /\ req' # req) =>
             /\ req'.nodes = <<>>
             /\ req'.dot = NoDot
             /\ req'.pipes = 0
             /\ req'.backend = "unused"
             /\ req'.response = "none"
       /\ (req'.pc = "built" /\ req' # req) =>
             Len(req'.dot.body) = Len(req.nodes) + Len(req.edges)]_vars

\* a preview was answered after an earlier one, in a store others wrote to
C7_Witness ==
    /\ req.pc = "done"
    /\ last.id # 0
    /\ req.dot.body # <<>>
    /\ Ids(transfo) # TransfoIds

\* C8: the backend is invoked at most once per request, and when it fails
\* the request ends with the error, not with an image.
C8_BackendFault ==
    /\ req.pipes <= 1
    /\ req.backend = "failed" =>
          /\ req.pc = "done"
          /\ req.pipes = 1
          /\ req.response = "error"
          /\ req.response # "image/png"

\* the backend failed on a graph that has nodes and edges
C8_Witness ==
    /\ req.backend = "failed"
    /\ req.dot.body # <<>>

\* C9: DELETE of a stored platform answers 204 and removes that row only;
\* GET or DELETE of an id not in the store answers 410 "Platform not found"
\* and leaves the platforms as they are; an id comes (back) into the store
\* only by a create, so every GET or DELETE after the removal and before
\* such a create answers 410.
C9_Gone ==
    [][\A i \in PlatformIds :
          LET stored == i \in Ids(platform)
              asked(op) == http' # http /\ http'.op = op /\ http'.id = i
          IN  /\ asked("DELETE platform") =>
                    IF stored
                    THEN /\ http'.status = 204
                         /\ platform' = {row \in platform : row.id # i}
                    ELSE /\ http'.status = 410
                         /\ http'.message = "Platform not found"
                         /\ platform' = platform
              /\ asked("GET platform") =>
                    /\ platform' = platform
                    /\ ~stored => /\ http'.status = 410
                                  /\ http'.message = "Platform not found"
              /\ (~stored /\ i \in Ids(platform')) =>
                    /\ http'.op = "POST platform"
                    /\ http'.status = 201]_vars

\* a DELETE answered 204 and the platform is gone, others remaining
C9_Witness ==
    /\ http.op = "DELETE platform"
    /\ http.status = 204
    /\ http.id \notin Ids(platform)
    /\ platform # {}

\* C10: POST /platforms/<id>/configs answers 201 with the created row, whose
\* platform is the path id and which the store (hence the list) now holds.
C10_ConfigCreated ==
    http.op = "POST config" =>
        /\ http.status = 201
        /\ \E row \in http.body :
              /\ row.platform = http.id
              /\ row \in platform_config

====
